---- MODULE Spec2Model ----
(***************************************************************************)
(* State-machine model of src/app.py: a Flask attendance service over one  *)
(* SQLite file.  Requests are handled concurrently by worker threads;      *)
(* every statement sent to SQLite is one atomic step.  Text values are     *)
(* sequences of one-character strings so that str.strip() is computed.     *)
(*                                                                         *)
(* SQLite locking (rollback journal, the default of sqlite3.connect):      *)
(* an INSERT takes the single write lock and keeps it until the            *)
(* connection commits or is closed (close rolls back), also when the       *)
(* INSERT itself failed on a constraint; a second writer waits in the busy *)
(* handler (5 s by default), modelled as a disabled step; readers see      *)
(* committed rows only.                                                    *)
(***************************************************************************)
EXTENDS Integers, Sequences, FiniteSets, TLC

VARIABLES sessions, attendance, writer, pending, open, clock,
          served, pc, req, loc, g, resp

vars == <<sessions, attendance, writer, pending, open, clock,
          served, pc, req, loc, g, resp>>

(* ------------------------------ bounds -------------------------------- *)

\* last second the wall clock reaches
MaxClock == 1
\* number of requests the service accepts in one run
MaxRequests == 2

\* worker threads handling requests concurrently
Workers == {1, 2}

(* ------------------------------- text --------------------------------- *)

SP == " "
Empty == <<>>

RECURSIVE lstrip(_)
lstrip(s) == IF s # Empty /\ Head(s) = SP THEN lstrip(Tail(s)) ELSE s

RECURSIVE rstrip(_)
rstrip(s) ==
    IF s # Empty /\ s[Len(s)] = SP THEN rstrip(SubSeq(s, 1, Len(s) - 1)) ELSE s

\* (variant: the value used as submitted)
MutNoStrip(s) == s
\* str.strip()
strip(s) == lstrip(rstrip(s))

\* a JSON / form field: absent (None) or a string
None == [isNone |-> TRUE, str |-> Empty]
Str(s) == [isNone |-> FALSE, str |-> s]

\* (payload.get(k) or "")
or_empty(v) == IF v.isNone THEN Empty ELSE v.str

\* request.form.get(k, "")
form_get(v) == IF v.isNone THEN Empty ELSE v.str

(* ------------------------------ inputs -------------------------------- *)

\* values secrets.token_urlsafe can return
TokenSpace == {<<"p">>, <<"q">>}

\* the token segment of /session/<token>, /scan/<token>, /qr/<token>.png
UrlTokens == TokenSpace

\* form field class_name
ClassNameInputs == {None, Str(<<SP>>), Str(<<SP, "A">>)}

\* JSON bodies of /api/mark-attendance: every combination of the filled
\* fields, and bodies with one or all fields absent, empty or blank
Payload(t, s, n) == [token |-> t, student_id |-> s, student_name |-> n]
FilledPayloads ==
    {Payload(Str(t), Str(s), Str(n)) :
        t \in {<<"p", SP>>, <<"q">>},
        s \in {<<"a">>, <<SP, "a">>, <<"b">>},
        n \in {<<"x">>, <<"y", SP>>}}
BlankPayloads ==
    {Payload(None, Str(<<"a">>), Str(<<"x">>)),
     Payload(Str(<<"p">>), Str(<<SP>>), Str(<<"x">>)),
     Payload(Str(<<"p">>), Str(<<"a">>), Str(Empty)),
     Payload(Str(<<"q">>), Str(<<"b">>), None),
     Payload(None, None, None)}
Payloads == FilledPayloads \cup BlankPayloads

(* ------------------------------ values -------------------------------- *)

NoConn == 0
NoRow == 0

NoReq ==
    [route |-> "none", token |-> None, class_name |-> None,
     student_id |-> None, student_name |-> None]

NoLoc ==
    [token |-> Empty, class_name |-> Empty, student_id |-> Empty,
     student_name |-> Empty, created_at |-> 0, session |-> NoRow]

NoResp == [status |-> 0, view |-> "none", token |-> Empty, rows |-> <<>>]

NoPending == [sessions |-> <<>>, attendance |-> <<>>]

Response(status, view) ==
    [status |-> status, view |-> view, token |-> Empty, rows |-> <<>>]

InFlight(r) == pc[r] \notin {"idle", "done"}

(* ----------------------------- storage -------------------------------- *)

\* datetime.utcnow().isoformat(timespec="seconds")
utcnow == clock

\* (variant: the WHERE clause left out)
MutFirstSession(t) == IF sessions = <<>> THEN NoRow ELSE 1
\* SELECT ... FROM sessions WHERE token = ?  (fetchone; NoRow for None)
session_by_token(t) ==
    LET m == {i \in DOMAIN sessions : sessions[i].token = t}
    IN  IF m = {} THEN NoRow ELSE CHOOSE i \in m : \A j \in m : i <= j

\* (variant: the token column declared without UNIQUE)
MutTokenNeverTaken(t) == FALSE
\* sessions.token TEXT UNIQUE
token_taken(t) == \E i \in DOMAIN sessions : sessions[i].token = t

\* (variant: the table declared without its UNIQUE constraint)
MutNoUniquePair(sid, student) == FALSE
\* UNIQUE(session_id, student_id)
already_marked(sid, student) ==
    \E i \in DOMAIN attendance :
        attendance[i].session_id = sid /\ attendance[i].student_id = student

\* the rows of one session in ORDER BY marked_at DESC: every order of the
\* rows that is non-increasing in marked_at (SQL leaves ties unordered);
\* rows keep all columns so that a listed row can be told from another
attendance_of(sid) ==
    LET idx == {i \in DOMAIN attendance : attendance[i].session_id = sid}
        n == Cardinality(idx)
        perms == {p \in [1..n -> idx] : \A a, b \in 1..n : a # b => p[a] # p[b]}
    IN  {[k \in 1..n |-> attendance[p[k]]] : p \in
            {q \in perms : \A a, b \in 1..n :
                a < b => attendance[q[a]].marked_at >= attendance[q[b]].marked_at}}

\* SELECT ... FROM sessions ORDER BY id DESC
sessions_desc == [k \in 1..Len(sessions) |-> sessions[Len(sessions) + 1 - k]]

\* sqlite3.connect: a connection object no one holds yet
new_conn == CHOOSE c \in Workers : c \notin open /\ \A d \in Workers \ open : c <= d

\* get_db: the connection of this request's g, opened on first use
get_db(r) ==
    /\ g' = [g EXCEPT ![r] = IF g[r] = NoConn THEN new_conn ELSE g[r]]
    /\ open' = open \cup {g'[r]}

Respond(r, response) ==
    /\ resp' = [resp EXCEPT ![r] = response]
    /\ pc' = [pc EXCEPT ![r] = "teardown"]

(* ------------------------------ Init ---------------------------------- *)

\* init_db creates the tables only if the file has none: the service starts
\* on a fresh file or on the file an earlier run left behind
FreshFile == [sessions |-> <<>>, attendance |-> <<>>]
OneSessionFile ==
    [sessions |-> <<[id |-> 1, token |-> <<"p">>, class_name |-> <<"A">>,
                     created_at |-> 0]>>,
     attendance |-> <<>>]
OneMarkFile ==
    [OneSessionFile EXCEPT !.attendance =
        <<[id |-> 1, session_id |-> 1, student_id |-> <<"a">>,
           student_name |-> <<"x">>, marked_at |-> 0]>>]
PersistedFiles == {FreshFile, OneSessionFile, OneMarkFile}

Workspace(db, accepted) ==
    /\ sessions = db.sessions
    /\ attendance = db.attendance
    /\ writer = NoConn
    /\ pending = NoPending
    /\ open = {}
    /\ clock = 0
    /\ served = accepted
    /\ pc = [r \in Workers |-> "idle"]
    /\ req = [r \in Workers |-> NoReq]
    /\ loc = [r \in Workers |-> NoLoc]
    /\ g = [r \in Workers |-> NoConn]
    /\ resp = [r \in Workers |-> NoResp]

Init == \E db \in PersistedFiles : Workspace(db, 0)

\* the next request goes to the lowest-numbered free worker (workers are
\* interchangeable); served counts the requests accepted so far
Accept(r, request) ==
    /\ pc[r] \in {"idle", "done"}
    /\ \A w \in Workers : w < r => InFlight(w)
    /\ served < MaxRequests
    /\ served' = served + 1
    /\ req' = [req EXCEPT ![r] = request]

(* -------------------------- GET / ------------------------------------- *)

\* (variant: the list view drops the sessions of past seconds)
MutHomePurge(r) ==
    /\ Accept(r, [NoReq EXCEPT !.route = "home"])
    /\ get_db(r)
    /\ sessions' = SelectSeq(sessions, LAMBDA row : row.created_at >= utcnow)
    /\ Respond(r, [Response(200, "home.html") EXCEPT !.rows = sessions_desc])
    /\ loc' = [loc EXCEPT ![r] = NoLoc]
    /\ UNCHANGED <<attendance, writer, pending, clock>>
\* lines 62-68
home(r) ==
    /\ Accept(r, [NoReq EXCEPT !.route = "home"])
    /\ get_db(r)
    /\ Respond(r, [Response(200, "home.html") EXCEPT !.rows = sessions_desc])
    /\ loc' = [loc EXCEPT ![r] = NoLoc]
    /\ UNCHANGED <<sessions, attendance, writer, pending, clock>>

(* -------------------- POST /create-session ---------------------------- *)

\* lines 73-78: validation, token and timestamp
create_session(r) ==
    \E cn \in ClassNameInputs, tok \in TokenSpace :
        /\ Accept(r, [NoReq EXCEPT !.route = "create", !.class_name = cn])
        /\ LET class_name == strip(form_get(cn))
           IN  IF class_name = Empty
               THEN /\ Respond(r, Response(302, "home"))
                    /\ loc' = [loc EXCEPT ![r] = NoLoc]
               ELSE /\ loc' = [loc EXCEPT ![r] =
                                [NoLoc EXCEPT !.class_name = class_name,
                                              !.token = tok,
                                              !.created_at = utcnow]]
                    /\ pc' = [pc EXCEPT ![r] = "create_insert"]
                    /\ resp' = [resp EXCEPT ![r] = NoResp]
        /\ UNCHANGED <<sessions, attendance, writer, pending, open, clock, g>>

\* lines 80-84: get_db and the INSERT; a duplicate token raises
\* sqlite3.IntegrityError, which nothing catches
create_session_insert(r) ==
    /\ pc[r] = "create_insert"
    /\ writer = NoConn
    /\ get_db(r)
    /\ writer' = g'[r]
    /\ IF token_taken(loc[r].token)
       THEN /\ Respond(r, Response(500, "error"))
            /\ UNCHANGED pending
       ELSE /\ pending' = [pending EXCEPT !.sessions =
                <<[id |-> Len(sessions) + 1, token |-> loc[r].token,
                   class_name |-> loc[r].class_name,
                   created_at |-> loc[r].created_at]>>]
            /\ pc' = [pc EXCEPT ![r] = "create_commit"]
            /\ UNCHANGED resp
    /\ UNCHANGED <<sessions, attendance, clock, served, req, loc>>

\* db.commit(): the pending rows of this connection become visible
commit(r) ==
    /\ writer = g[r]
    /\ sessions' = sessions \o pending.sessions
    /\ attendance' = attendance \o pending.attendance
    /\ pending' = NoPending
    /\ writer' = NoConn

\* lines 85-86
create_session_commit(r) ==
    /\ pc[r] = "create_commit"
    /\ commit(r)
    /\ Respond(r, [Response(302, "session_detail") EXCEPT !.token = loc[r].token])
    /\ UNCHANGED <<open, clock, served, req, loc, g>>

(* ----------------------- GET /session/<token> ------------------------- *)

\* lines 91-96
session_detail(r) ==
    \E tok \in UrlTokens :
        /\ Accept(r, [NoReq EXCEPT !.route = "detail", !.token = Str(tok)])
        /\ get_db(r)
        /\ LET session == session_by_token(tok)
           IN  IF session = NoRow
               THEN /\ Respond(r, Response(404, "Session not found"))
                    /\ loc' = [loc EXCEPT ![r] = NoLoc]
               ELSE /\ loc' = [loc EXCEPT ![r] =
                                [NoLoc EXCEPT !.token = tok, !.session = session]]
                    /\ pc' = [pc EXCEPT ![r] = "detail_list"]
                    /\ resp' = [resp EXCEPT ![r] = NoResp]
        /\ UNCHANGED <<sessions, attendance, writer, pending, clock>>

\* lines 98-111
session_detail_list(r) ==
    /\ pc[r] = "detail_list"
    /\ \E rows \in attendance_of(loc[r].session) :
           Respond(r, [Response(200, "session.html") EXCEPT
                          !.token = loc[r].token, !.rows = rows])
    /\ UNCHANGED <<sessions, attendance, writer, pending, open, clock,
                   served, req, loc, g>>

(* ----------------------- GET /qr/<token>.png -------------------------- *)

qr_code(r) ==
    \E tok \in UrlTokens :
        /\ Accept(r, [NoReq EXCEPT !.route = "qr", !.token = Str(tok)])
        /\ Respond(r, [Response(200, "image/png") EXCEPT !.token = tok])
        /\ loc' = [loc EXCEPT ![r] = NoLoc]
        /\ UNCHANGED <<sessions, attendance, writer, pending, open, clock, g>>

(* ------------------------ GET /scan/<token> --------------------------- *)

scan_page(r) ==
    \E tok \in UrlTokens :
        /\ Accept(r, [NoReq EXCEPT !.route = "scan", !.token = Str(tok)])
        /\ get_db(r)
        /\ IF session_by_token(tok) = NoRow
           THEN Respond(r, Response(404, "Session not found"))
           ELSE Respond(r, [Response(200, "scan.html") EXCEPT !.token = tok])
        /\ loc' = [loc EXCEPT ![r] = NoLoc]
        /\ UNCHANGED <<sessions, attendance, writer, pending, clock>>

(* -------------------- POST /api/mark-attendance ----------------------- *)

\* (variant: student_name left out of the check)
MutBlankAllowsName(token, student_id, student_name) ==
    token = Empty \/ student_id = Empty
\* line 140
blank_field(token, student_id, student_name) ==
    token = Empty \/ student_id = Empty \/ student_name = Empty

\* lines 135-146: the three fields, validation, get_db, session lookup
mark_attendance_body(r, payload) ==
        /\ Accept(r, [NoReq EXCEPT !.route = "mark",
                                   !.token = payload.token,
                                   !.student_id = payload.student_id,
                                   !.student_name = payload.student_name])
        /\ LET token == strip(or_empty(payload.token))
               student_id == strip(or_empty(payload.student_id))
               student_name == strip(or_empty(payload.student_name))
               session == session_by_token(token)
           IN  IF blank_field(token, student_id, student_name)
               THEN /\ Respond(r, Response(400, "token, student_id and student_name are required"))
                    /\ loc' = [loc EXCEPT ![r] = NoLoc]
                    /\ UNCHANGED <<g, open>>
               ELSE /\ get_db(r)
                    /\ IF session = NoRow
                       THEN /\ Respond(r, Response(404, "Invalid session token"))
                            /\ loc' = [loc EXCEPT ![r] = NoLoc]
                       ELSE /\ loc' = [loc EXCEPT ![r] =
                                        [NoLoc EXCEPT !.token = token,
                                                      !.student_id = student_id,
                                                      !.student_name = student_name,
                                                      !.session = session]]
                            /\ pc' = [pc EXCEPT ![r] = "mark_insert"]
                            /\ resp' = [resp EXCEPT ![r] = NoResp]
        /\ UNCHANGED <<sessions, attendance, writer, pending, clock>>

mark_attendance(r) == \E payload \in Payloads : mark_attendance_body(r, payload)

\* (variant: the handler catches another exception class)
MutMarkInsertUncaught(r) ==
    /\ pc[r] = "mark_insert"
    /\ writer = NoConn
    /\ writer' = g[r]
    /\ IF already_marked(loc[r].session, loc[r].student_id)
       THEN /\ Respond(r, Response(500, "error"))
            /\ UNCHANGED pending
       ELSE /\ pending' = [pending EXCEPT !.attendance =
                <<[id |-> Len(attendance) + 1, session_id |-> loc[r].session,
                   student_id |-> loc[r].student_id,
                   student_name |-> loc[r].student_name,
                   marked_at |-> utcnow]>>]
            /\ pc' = [pc EXCEPT ![r] = "mark_commit"]
            /\ UNCHANGED resp
    /\ UNCHANGED <<sessions, attendance, open, clock, served, req, loc, g>>
\* (variant: INSERT OR REPLACE semantics, committed at once)
MutMarkUpsert(r) ==
    /\ pc[r] = "mark_insert"
    /\ writer = NoConn
    /\ IF already_marked(loc[r].session, loc[r].student_id)
       THEN /\ attendance' =
                [i \in DOMAIN attendance |->
                    IF /\ attendance[i].session_id = loc[r].session
                       /\ attendance[i].student_id = loc[r].student_id
                    THEN [attendance[i] EXCEPT
                            !.student_name = loc[r].student_name,
                            !.marked_at = utcnow]
                    ELSE attendance[i]]
            /\ Respond(r, Response(200, "Attendance marked successfully"))
            /\ UNCHANGED <<pending, writer>>
       ELSE /\ pending' = [pending EXCEPT !.attendance =
                <<[id |-> Len(attendance) + 1, session_id |-> loc[r].session,
                   student_id |-> loc[r].student_id,
                   student_name |-> loc[r].student_name,
                   marked_at |-> utcnow]>>]
            /\ writer' = g[r]
            /\ pc' = [pc EXCEPT ![r] = "mark_commit"]
            /\ UNCHANGED <<resp, attendance>>
    /\ UNCHANGED <<sessions, open, clock, served, req, loc, g>>
\* lines 148-157 and 159-160: the INSERT and the IntegrityError handler
mark_attendance_insert(r) ==
    /\ pc[r] = "mark_insert"
    /\ writer = NoConn
    /\ writer' = g[r]
    /\ IF already_marked(loc[r].session, loc[r].student_id)
       THEN /\ Respond(r, Response(409, "Attendance already marked for this student"))
            /\ UNCHANGED pending
       ELSE /\ pending' = [pending EXCEPT !.attendance =
                <<[id |-> Len(attendance) + 1, session_id |-> loc[r].session,
                   student_id |-> loc[r].student_id,
                   student_name |-> loc[r].student_name,
                   marked_at |-> utcnow]>>]
            /\ pc' = [pc EXCEPT ![r] = "mark_commit"]
            /\ UNCHANGED resp
    /\ UNCHANGED <<sessions, attendance, open, clock, served, req, loc, g>>

\* lines 158 and 162
mark_attendance_commit(r) ==
    /\ pc[r] = "mark_commit"
    /\ commit(r)
    /\ Respond(r, Response(200, "Attendance marked successfully"))
    /\ UNCHANGED <<open, clock, served, req, loc, g>>

(* --------------------------- teardown --------------------------------- *)

\* (variant: the connection is closed only after a successful response)
MutCloseDbOnSuccess(r) ==
    /\ pc[r] = "teardown"
    /\ pc' = [pc EXCEPT ![r] = "done"]
    /\ req' = [req EXCEPT ![r] = NoReq]
    /\ loc' = [loc EXCEPT ![r] = NoLoc]
    /\ g' = [g EXCEPT ![r] = NoConn]
    /\ open' = IF resp[r].status >= 400 THEN open ELSE open \ {g[r]}
    /\ writer' = IF g[r] # NoConn /\ writer = g[r] THEN NoConn ELSE writer
    /\ pending' = IF g[r] # NoConn /\ writer = g[r] THEN NoPending ELSE pending
    /\ resp' = [resp EXCEPT ![r] = Response(resp[r].status, "sent")]
    /\ UNCHANGED <<sessions, attendance, clock, served>>
\* close_db: runs when the request's context ends, whatever the outcome;
\* closing a connection rolls back what it had not committed; the worker
\* keeps the status it sent
close_db(r) ==
    /\ pc[r] = "teardown"
    /\ pc' = [pc EXCEPT ![r] = "done"]
    /\ req' = [req EXCEPT ![r] = NoReq]
    /\ loc' = [loc EXCEPT ![r] = NoLoc]
    /\ g' = [g EXCEPT ![r] = NoConn]
    /\ open' = open \ {g[r]}
    /\ writer' = IF g[r] # NoConn /\ writer = g[r] THEN NoConn ELSE writer
    /\ pending' = IF g[r] # NoConn /\ writer = g[r] THEN NoPending ELSE pending
    /\ resp' = [resp EXCEPT ![r] = Response(resp[r].status, "sent")]
    /\ UNCHANGED <<sessions, attendance, clock, served>>

(* ----------------------------- clock ---------------------------------- *)

Tick ==
    /\ clock < MaxClock
    /\ clock' = clock + 1
    /\ UNCHANGED <<sessions, attendance, writer, pending, open,
                   served, pc, req, loc, g, resp>>

(* ------------------------------ Next ---------------------------------- *)

Next ==
    \/ Tick
    \/ \E r \in Workers :
        \/ home(r)
        \/ create_session(r)
        \/ create_session_insert(r)
        \/ create_session_commit(r)
        \/ session_detail(r)
        \/ session_detail_list(r)
        \/ qr_code(r)
        \/ scan_page(r)
        \/ mark_attendance(r)
        \/ mark_attendance_insert(r)
        \/ mark_attendance_commit(r)
        \/ close_db(r)

Spec == Init /\ [][Next]_vars

(* ------------------- two submissions of one student ------------------- *)

\* Two /api/mark-attendance requests for the stored session "p" and the
\* student "a" (with or without surrounding blanks, under either name),
\* and nothing else: the last two requests of a run.
RacePayloads ==
    {payload \in FilledPayloads :
        /\ strip(payload.token.str) = <<"p">>
        /\ strip(payload.student_id.str) = <<"a">>}

InitRace == Workspace(OneSessionFile, MaxRequests - 2)

NextRace ==
    \/ Tick
    \/ \E r \in Workers :
        \/ \E payload \in RacePayloads : mark_attendance_body(r, payload)
        \/ mark_attendance_insert(r)
        \/ mark_attendance_commit(r)
        \/ close_db(r)

SpecRace == InitRace /\ [][NextRace]_vars

(* ------------------------ vocabulary of the claims -------------------- *)

Idle(r) == pc[r] \in {"idle", "done"}

\* worker r takes a step
Steps(r) == pc'[r] # pc[r]

\* worker r accepts a request of this route in the step
Arrives(r, route) == Idle(r) /\ Steps(r) /\ req'[r].route = route

\* the route worker r is serving during the step
RouteOf(r) == IF Idle(r) THEN req'[r].route ELSE req[r].route

\* missing, empty or whitespace-only
IsBlank(v) == v.isNone \/ \A i \in DOMAIN v.str : v.str[i] = SP

NoSurroundingBlank(s) == s # Empty /\ Head(s) # SP /\ s[Len(s)] # SP

\* ids of the stored sessions with this token
SessionsWith(t) == {i \in DOMAIN sessions : sessions[i].token = t}

\* rows of the attendance store for this session token and student
RecordsOf(t, student) ==
    {i \in DOMAIN attendance :
        /\ attendance[i].session_id \in SessionsWith(t)
        /\ attendance[i].student_id = student}

StoresUnchanged == UNCHANGED <<sessions, attendance, pending, writer>>

(* ------------------------------- C1 ----------------------------------- *)

\* C1: in every reachable state the attendance store holds at most one
\* record per (session_id, student_id), the student_id being stored without
\* surrounding whitespace; a request answered 200 has exactly one record
\* under its trimmed student_id.
C1_OneRecordPerPair ==
    /\ \A i, j \in DOMAIN attendance :
        (/\ attendance[i].session_id = attendance[j].session_id
         /\ attendance[i].student_id = attendance[j].student_id) => i = j
    /\ \A i \in DOMAIN attendance : NoSurroundingBlank(attendance[i].student_id)
    /\ \A r \in Workers :
        (pc[r] = "teardown" /\ req[r].route = "mark" /\ resp[r].status = 200) =>
            Cardinality(RecordsOf(strip(or_empty(req[r].token)),
                                  strip(or_empty(req[r].student_id)))) = 1

\* a submission of " a" is turned away because "a" is already stored
C1_Witness ==
    \E r \in Workers :
        /\ pc[r] = "teardown" /\ resp[r].status = 409
        /\ req[r].student_id = Str(<<SP, "a">>)
        /\ RecordsOf(<<"p">>, <<"a">>) # {}

(* ------------------------------- C2 ----------------------------------- *)

\* C2: of two concurrent submissions for the same session and student, one
\* is answered 200, the other 409, one record exists afterwards, and no
\* request is answered with an unhandled error (checked under SpecRace).
C2_ExactlyOneWins ==
    /\ \A r \in Workers : resp[r].status \in {0, 200, 409}
    /\ Cardinality(RecordsOf(<<"p">>, <<"a">>)) <= 1
    /\ (\A r \in Workers : pc[r] = "done") =>
        /\ Cardinality({r \in Workers : resp[r].status = 200}) = 1
        /\ Cardinality({r \in Workers : resp[r].status = 409}) = Cardinality(Workers) - 1
        /\ Cardinality(RecordsOf(<<"p">>, <<"a">>)) = 1
        /\ Len(attendance) = 1

\* both are done and the one that arrived second won
C2_Witness ==
    /\ \A r \in Workers : pc[r] = "done"
    /\ resp[1].status = 409 /\ resp[2].status = 200

(* ------------------------------- C3 ----------------------------------- *)

\* the request worker r serves during the step, and its trimmed fields
Serving(r) == IF Idle(r) THEN req'[r] ELSE req[r]
TokenOf(q) == strip(or_empty(q.token))
StudentOf(q) == strip(or_empty(q.student_id))
NameOf(q) == strip(or_empty(q.student_name))

\* the INSERT answers 409 and changes nothing when the pair is stored, and
\* goes on to the commit otherwise; the commit answers 200 and appends the
\* one record; a call answered 409 changes nothing afterwards either
MarkSteps(r) ==
    LET q == Serving(r)
        stored == RecordsOf(TokenOf(q), StudentOf(q))
    IN  /\ (pc[r] = "mark_insert" /\ Steps(r)) =>
            /\ attendance' = attendance
            /\ IF stored # {}
               THEN resp'[r].status = 409 /\ pending' = pending
               ELSE pc'[r] = "mark_commit"
        /\ (pc[r] = "mark_commit" /\ Steps(r)) =>
            /\ resp'[r].status = 200
            /\ stored = {}
            /\ Len(attendance') = Len(attendance) + 1
            /\ SubSeq(attendance', 1, Len(attendance)) = attendance
            /\ LET row == attendance'[Len(attendance')]
               IN  /\ row.session_id \in SessionsWith(TokenOf(q))
                   /\ row.student_id = StudentOf(q)
                   /\ row.student_name = NameOf(q)
                   /\ row.marked_at <= clock
        /\ (pc[r] = "teardown" /\ req[r].route = "mark" /\ Steps(r)) =>
            attendance' = attendance

\* a call for a stored session and a student gets as far as the INSERT
ReachesInsert(r) == pc'[r] = "mark_insert"

\* C3 as stated: the first call for a new student_id is answered 200 and
\* adds one record; every later call with that token and student_id,
\* whatever its student_name, is answered 409 and leaves the store as it was.
C3_Original ==
    [][\A r \in Workers :
        /\ MarkSteps(r)
        /\ (/\ Arrives(r, "mark")
            /\ RecordsOf(TokenOf(req'[r]), StudentOf(req'[r])) # {})
           => ReachesInsert(r)]_vars

\* C3 as amended: the same, for later calls whose student_name is not blank
\* (a blank one is answered 400), and first calls with all fields filled.
C3_MarkedOnce ==
    [][\A r \in Workers :
        /\ MarkSteps(r)
        /\ (/\ Arrives(r, "mark")
            /\ SessionsWith(TokenOf(req'[r])) # {}
            /\ ~IsBlank(req'[r].student_id)
            /\ ~IsBlank(req'[r].student_name))
           => ReachesInsert(r)
        /\ (/\ Arrives(r, "mark")
            /\ RecordsOf(TokenOf(req'[r]), StudentOf(req'[r])) # {}
            /\ IsBlank(req'[r].student_name))
           => resp'[r].status = 400 /\ attendance' = attendance]_vars

\* a repeated call under another name is answered 409; the stored name stays
C3_Witness ==
    \E r \in Workers, i \in DOMAIN attendance :
        /\ pc[r] = "teardown" /\ req[r].route = "mark" /\ resp[r].status = 409
        /\ i \in RecordsOf(TokenOf(req[r]), StudentOf(req[r]))
        /\ attendance[i].student_name # NameOf(req[r])

(* ------------------------------- C4 ----------------------------------- *)

TokensUnique ==
    \A i, j \in DOMAIN sessions : sessions[i].token = sessions[j].token => i = j

\* C4 as stated: every create_session call with a non-blank class name ends
\* in the redirect to its session, stored once under a token no other
\* session has.
C4_Original ==
    /\ TokensUnique
    /\ \A r \in Workers :
        (/\ pc[r] = "teardown" /\ req[r].route = "create"
         /\ ~IsBlank(req[r].class_name)) =>
            /\ resp[r].status = 302 /\ resp[r].view = "session_detail"
            /\ Cardinality(SessionsWith(resp[r].token)) = 1

\* C4 as amended: stored tokens are pairwise distinct; a create_session call
\* with a non-blank class name whose generated token no stored session has
\* adds exactly that one session and is redirected to it; one whose token is
\* already stored fails with the unhandled integrity error (500) and adds
\* nothing; a lookup by a stored token (session_detail, scan_page,
\* mark_attendance) is never answered not-found.
C4_UniqueOrRejected ==
    /\ [](/\ TokensUnique
          /\ \A r \in Workers :
              (/\ pc[r] = "teardown" /\ req[r].route = "create"
               /\ ~IsBlank(req[r].class_name)) =>
                  \/ /\ resp[r].status = 302 /\ resp[r].view = "session_detail"
                     /\ resp[r].token = loc[r].token
                     /\ \E i \in DOMAIN sessions :
                          /\ SessionsWith(resp[r].token) = {i}
                          /\ sessions[i].id = i
                          /\ sessions[i].class_name = strip(form_get(req[r].class_name))
                          /\ sessions[i].created_at = loc[r].created_at
                  \/ /\ resp[r].status = 500
                     /\ SessionsWith(loc[r].token) # {})
    /\ [][\A r \in Workers :
            /\ (Arrives(r, "create") /\ ~IsBlank(req'[r].class_name)) =>
                pc'[r] = "create_insert" /\ sessions' = sessions
            /\ (pc[r] = "create_insert" /\ Steps(r)) =>
                /\ sessions' = sessions
                /\ IF SessionsWith(loc[r].token) # {}
                   THEN resp'[r].status = 500
                   ELSE pc'[r] = "create_commit"
            /\ (pc[r] = "create_commit" /\ Steps(r)) =>
                /\ SessionsWith(loc[r].token) = {}
                /\ Len(sessions') = Len(sessions) + 1
                /\ SubSeq(sessions', 1, Len(sessions)) = sessions
                /\ sessions'[Len(sessions')].token = loc[r].token
            /\ (pc[r] = "teardown" /\ req[r].route = "create" /\ Steps(r)) =>
                sessions' = sessions
            /\ (/\ Idle(r) /\ Steps(r)
                /\ req'[r].route \in {"detail", "scan", "mark"}
                /\ SessionsWith(TokenOf(req'[r])) # {}
                /\ ~IsBlank(req'[r].student_id) \/ req'[r].route # "mark"
                /\ ~IsBlank(req'[r].student_name) \/ req'[r].route # "mark")
               => resp'[r].status # 404]_vars

\* a second session was created and its creator redirected to it
C4_Witness ==
    \E r \in Workers :
        /\ pc[r] = "teardown" /\ req[r].route = "create"
        /\ resp[r].status = 302 /\ resp[r].view = "session_detail"
        /\ Len(sessions) = 2

(* ------------------------------- C5 ----------------------------------- *)

\* C5 as stated: a mark_attendance request whose token matches no stored
\* session is answered 404 whatever the other fields are, and adds nothing.
C5_Original ==
    [][\A r \in Workers :
        (Arrives(r, "mark") /\ SessionsWith(TokenOf(req'[r])) = {}) =>
            resp'[r].status = 404 /\ attendance' = attendance]_vars

\* C5 as amended: such a request is answered 404 when all three fields are
\* filled and 400 when one of them is blank; in both cases it touches
\* neither store, then or at its teardown.
C5_UnknownTokenRejected ==
    [][\A r \in Workers :
        /\ (Arrives(r, "mark") /\ SessionsWith(TokenOf(req'[r])) = {}) =>
            /\ resp'[r].status =
                IF \/ IsBlank(req'[r].token) \/ IsBlank(req'[r].student_id)
                   \/ IsBlank(req'[r].student_name)
                THEN 400 ELSE 404
            /\ pc'[r] = "teardown"
            /\ StoresUnchanged
        /\ (/\ pc[r] = "teardown" /\ req[r].route = "mark"
            /\ resp[r].status \in {400, 404} /\ Steps(r)) => StoresUnchanged]_vars

\* an unknown token is turned away while another session is stored
C5_Witness ==
    \E r \in Workers :
        /\ pc[r] = "teardown" /\ req[r].route = "mark" /\ resp[r].status = 404
        /\ sessions # <<>>

(* ------------------------------- C6 ----------------------------------- *)

\* C6: a mark_attendance request with a missing, empty or blank token,
\* student_id or student_name is answered 400 without a connection being
\* opened or either store being read or written, at arrival and teardown.
C6_BlankRejectedFirst ==
    [][\A r \in Workers :
        /\ (/\ Arrives(r, "mark")
            /\ \/ IsBlank(req'[r].token) \/ IsBlank(req'[r].student_id)
               \/ IsBlank(req'[r].student_name)) =>
            /\ resp'[r].status = 400 /\ pc'[r] = "teardown"
            /\ g'[r] = NoConn /\ open' = open
            /\ StoresUnchanged
        /\ (/\ pc[r] = "teardown" /\ req[r].route = "mark"
            /\ resp[r].status = 400 /\ Steps(r)) =>
            g[r] = NoConn /\ open' = open /\ StoresUnchanged]_vars

\* a blank name is turned away though the session exists and the student
\* is already marked
C6_Witness ==
    \E r \in Workers :
        /\ pc[r] = "teardown" /\ req[r].route = "mark" /\ resp[r].status = 400
        /\ IsBlank(req[r].student_name)
        /\ RecordsOf(TokenOf(req[r]), StudentOf(req[r])) # {}

(* ------------------------------- C7 ----------------------------------- *)

\* C7: a create_session request with an empty or blank class name changes
\* neither store, generates no token and is redirected to the home page.
C7_BlankNameNoRecord ==
    [][\A r \in Workers :
        /\ (Arrives(r, "create") /\ IsBlank(req'[r].class_name)) =>
            /\ StoresUnchanged
            /\ loc'[r].token = Empty
            /\ resp'[r] = Response(302, "home")
            /\ pc'[r] = "teardown"
        /\ (/\ pc[r] = "teardown" /\ req[r].route = "create"
            /\ IsBlank(req[r].class_name) /\ Steps(r)) => StoresUnchanged]_vars

\* a whitespace-only class name was sent back to the home page
C7_Witness ==
    \E r \in Workers :
        /\ pc[r] = "teardown" /\ req[r].route = "create"
        /\ req[r].class_name = Str(<<SP>>)
        /\ resp[r].view = "home"

(* ------------------------------- C8 ----------------------------------- *)

\* C8: every stored row stays as it is; only the commit of create_session
\* adds a session, only the commit of a mark_attendance answered 200 adds an
\* attendance record, and home, session_detail, scan_page and qr_code change
\* neither store.
C8_AppendOnly ==
    [][/\ Len(sessions') >= Len(sessions)
       /\ SubSeq(sessions', 1, Len(sessions)) = sessions
       /\ Len(attendance') >= Len(attendance)
       /\ SubSeq(attendance', 1, Len(attendance)) = attendance
       /\ sessions' # sessions =>
            /\ Len(sessions') = Len(sessions) + 1
            /\ \E r \in Workers :
                pc[r] = "create_commit" /\ Steps(r) /\ req[r].route = "create"
       /\ attendance' # attendance =>
            /\ Len(attendance') = Len(attendance) + 1
            /\ \E r \in Workers :
                /\ pc[r] = "mark_commit" /\ Steps(r) /\ req[r].route = "mark"
                /\ resp'[r].status = 200
       /\ \A r \in Workers :
            (Steps(r) /\ RouteOf(r) \in {"home", "detail", "scan", "qr"}) =>
                sessions' = sessions /\ attendance' = attendance]_vars

\* the home page lists a session of an earlier run beside a new one
C8_Witness ==
    \E r \in Workers :
        /\ pc[r] = "teardown" /\ req[r].route = "home"
        /\ Len(resp[r].rows) = 2
        /\ resp[r].rows[2] = OneSessionFile.sessions[1]

(* ------------------------------- C9 ----------------------------------- *)

\* C9: the open connections are exactly those held by requests in flight,
\* one per request at most and none held by two; a request keeps the
\* connection it opened until its teardown closes it, on every exit path,
\* so none is open once no request is in flight.
C9_ConnectionScoped ==
    /\ [](/\ \A r \in Workers : Idle(r) => g[r] = NoConn
          /\ open = {g[r] : r \in Workers} \ {NoConn}
          /\ \A r1, r2 \in Workers : (r1 # r2 /\ g[r1] # NoConn) => g[r1] # g[r2]
          /\ writer \in open \cup {NoConn})
    /\ [][/\ Cardinality(open' \ open) <= 1
          /\ \A r \in Workers :
              /\ (g[r] # NoConn /\ ~Idle(r)') => g'[r] = g[r]
              /\ (g'[r] # g[r] /\ g'[r] # NoConn) => (g[r] = NoConn /\ Steps(r))
              /\ (pc[r] = "teardown" /\ Steps(r)) =>
                    (pc'[r] = "done" /\ g[r] \notin open')]_vars

\* a request that ended in the unhandled integrity error is done and
\* nothing is open
C9_Witness ==
    \E r \in Workers :
        /\ pc[r] = "done" /\ resp[r].status = 500
        /\ open = {}

(* ------------------------------- C10 ---------------------------------- *)

\* C10 as stated: session_detail lists exactly the records of its session,
\* the later inserted before the earlier inserted, also among records
\* marked within the same second.
C10_MostRecentFirst ==
    [][\A r \in Workers :
        (pc[r] = "detail_list" /\ Steps(r)) =>
            LET mine == SelectSeq(attendance,
                                  LAMBDA row : row.session_id = loc[r].session)
            IN  resp'[r].rows =
                    [k \in 1..Len(mine) |-> mine[Len(mine) + 1 - k]]]_vars

====
